---------------------------- MODULE Spec2Model ----------------------------
(***************************************************************************)
(* A model of the Javari scraper (src/api/scrape.js): the rate-limited      *)
(* fetcher, the source scrapers, the transform layer, the batch uploader    *)
(* and the orchestrating request handler.                                   *)
(*                                                                          *)
(* JavaScript values are modelled as records [t, v]: t is the type tag and  *)
(* v the payload (a sequence of one-character strings for a string, an      *)
(* integer for a number).  A property that an object does not carry reads   *)
(* as undefined, exactly as in JavaScript.                                  *)
(***************************************************************************)
EXTENDS Integers, Sequences, FiniteSets, Bags, TLC

VARIABLES
    tr_domain, tr_raw, tr_out,                       \* transform harness
    fw_retries, fw_i, fw_status, fw_requests, fw_waited, fw_last, fw_hist,
    CONFIG,                                          \* process configuration
    table, ds_requests,                              \* the datastore
    up_status, up_records, up_i, uploaded, errors, up_batches, up_new, up_run, up_first,
    sc_fn, sc_status, sc_options, sc_idx, sc_page, sc_url, sc_results,
    sc_failed, sc_fetchAfterFail, sc_atFail, sc_fetches, sc_delayed, sc_succeeded, served,
    req, h_pc, h_sources, h_k, results, res_status, res_body, h_log

tr_vars == <<tr_domain, tr_raw, tr_out>>
fw_vars == <<fw_retries, fw_i, fw_status, fw_requests, fw_waited, fw_last, fw_hist>>
ds_vars == <<table, ds_requests>>
up_vars == <<up_status, up_records, up_i, uploaded, errors, up_batches, up_new, up_run, up_first>>
sc_vars == <<sc_fn, sc_status, sc_options, sc_idx, sc_page, sc_url, sc_results,
             sc_failed, sc_fetchAfterFail, sc_atFail, sc_fetches, sc_delayed, sc_succeeded,
             served>>
h_vars == <<req, h_pc, h_sources, h_k, results, res_status, res_body, h_log>>
vars == <<tr_vars, fw_vars, CONFIG, ds_vars, up_vars, sc_vars, h_vars>>

(***************************************************************************)
(* Bounds of the model.                                                     *)
(***************************************************************************)
\* the largest value of the request's limit parameter
MaxLimit == 1
\* how many records the remote sources serve during one run
MaxRemoteItems == 2
\* how many records one remote page carries at most
MaxPageItems == 2
\* the TTB sequence numbers tried per year (the source tries 100000)
TTBSeqEnd == 200
\* the Open Food Facts categories walked (the source lists 11)
NumCategories == 2
\* the Open Library subjects walked (the source lists 6)
NumSubjects == 2
\* the first letters searched on TheCocktailDB (the source searches 26)
NumLetters == 2
\* the longest record list handed to the uploader, in batches
MaxBatches == 3
\* the length of the long strings given to the transforms, beyond 255
LongExtra == 1
\* the answers a cursor endpoint gives to one scraper call before it stops
\* advertising a continuation
MaxFetches == 4

(***************************************************************************)
(* JavaScript values.                                                       *)
(***************************************************************************)
Undef == [t |-> "undefined", v |-> 0]
Null == [t |-> "null", v |-> 0]
NaN == [t |-> "nan", v |-> 0]
Thrown == [t |-> "throw", v |-> 0]
Str(s) == [t |-> "str", v |-> s]
Num(n) == [t |-> "num", v |-> n]
Obj(id) == [t |-> "obj", v |-> id]

Min(a, b) == IF a < b THEN a ELSE b

\* JavaScript truthiness: undefined, null, NaN, 0 and "" are falsy.
Truthy(x) ==
    CASE x.t = "str" -> x.v # <<>>
      [] x.t = "num" -> x.v # 0
      [] x.t = "obj" -> TRUE
      [] OTHER -> FALSE

\* a || b, where evaluating a may have thrown
OrElse(a, b) == IF a.t = "throw" THEN a ELSE IF Truthy(a) THEN a ELSE b

\* x.substring(0, n): only a string has the method
Substring(x, n) ==
    IF x.t = "str" THEN Str(SubSeq(x.v, 1, Min(n, Len(x.v)))) ELSE Thrown

\* x?.substring(0, n): undefined for a nullish x, a TypeError for any other
\* value that is not a string
OptSubstring(x, n) ==
    IF x.t \in {"undefined", "null"} THEN Undef ELSE Substring(x, n)

DigitChars == <<"0", "1", "2", "3", "4", "5", "6", "7", "8", "9">>
IsDigit(c) == \E i \in 1..10 : DigitChars[i] = c
DigitVal(c) == (CHOOSE i \in 1..10 : DigitChars[i] = c) - 1

RECURSIVE DigitsValue(_, _)
\* the value of the leading run of digits of s, after acc
DigitsValue(s, acc) ==
    IF s = <<>> \/ ~IsDigit(Head(s)) THEN acc
    ELSE DigitsValue(Tail(s), 10 * acc + DigitVal(Head(s)))

RECURSIVE NatToChars(_)
NatToChars(n) ==
    IF n < 10 THEN <<DigitChars[n + 1]>>
    ELSE NatToChars(n \div 10) \o <<DigitChars[(n % 10) + 1]>>

\* String(x) for the values the model passes to it
ToStringJS(x) ==
    CASE x.t = "str" -> x.v
      [] x.t = "num" -> NatToChars(x.v)
      [] OTHER -> <<"[", "o", "b", "j", "]">>

\* parseFloat / parseInt on the model's strings (digits and letters, no sign
\* or fraction): the leading digits, NaN when there are none
ParseNumber(x) ==
    CASE x.t = "num" -> x
      [] x.t = "str" -> IF x.v # <<>> /\ IsDigit(Head(x.v))
                        THEN Num(DigitsValue(x.v, 0)) ELSE NaN
      [] OTHER -> NaN

UpperChars == <<"A", "B", "C", "D", "E", "G", "I", "K", "L", "M", "N", "O", "R", "S", "T", "U", "V", "W", "Y">>
LowerChars == <<"a", "b", "c", "d", "e", "g", "i", "k", "l", "m", "n", "o", "r", "s", "t", "u", "v", "w", "y">>
ToLowerChar(c) ==
    IF \E i \in 1..Len(UpperChars) : UpperChars[i] = c
    THEN LowerChars[CHOOSE i \in 1..Len(UpperChars) : UpperChars[i] = c]
    ELSE c
ToLowerCase(s) == [i \in 1..Len(s) |-> ToLowerChar(s[i])]

\* s.includes(w)
Includes(s, w) ==
    \E i \in 1..(Len(s) - Len(w) + 1) : SubSeq(s, i, i + Len(w) - 1) = w

\* JSON.stringify of an identifier object (or of an object wrapping x)
JSONStringify(x) ==
    Str(<<"{">> \o (IF x.t = "obj" THEN x.v ELSE ToStringJS(x)) \o <<"}">>)

(***************************************************************************)
(* Transform layer (scrape.js 676-732).                                     *)
(***************************************************************************)
W_bourbon == <<"b", "o", "u", "r", "b", "o", "n">>
W_whiskey == <<"w", "h", "i", "s", "k", "e", "y">>
W_whisky == <<"w", "h", "i", "s", "k", "y">>
W_vodka == <<"v", "o", "d", "k", "a">>
W_rum == <<"r", "u", "m">>
W_tequila == <<"t", "e", "q", "u", "i", "l", "a">>
W_mezcal == <<"m", "e", "z", "c", "a", "l">>
W_gin == <<"g", "i", "n">>
W_brandy == <<"b", "r", "a", "n", "d", "y">>
W_cognac == <<"c", "o", "g", "n", "a", "c">>
W_wine == <<"w", "i", "n", "e">>
W_beer == <<"b", "e", "e", "r">>
W_ale == <<"a", "l", "e">>
W_lager == <<"l", "a", "g", "e", "r">>
W_malt == <<"m", "a", "l", "t">>
W_cocktail == <<"c", "o", "c", "k", "t", "a", "i", "l">>
W_spirits == <<"s", "p", "i", "r", "i", "t", "s">>
W_other == <<"o", "t", "h", "e", "r">>
W_liqueur == <<"l", "i", "q", "u", "e", "u", "r">>
W_Unknown == <<"U", "n", "k", "n", "o", "w", "n">>

\* a ladder whose catch-all names its category "other spirits"
mapCategoryOtherSpirits(cat) ==
    IF ~Truthy(cat) THEN Str(W_spirits)
    ELSE LET c == ToLowerCase(ToStringJS(cat)) IN
         IF Includes(c, W_bourbon) \/ Includes(c, W_whiskey) \/ Includes(c, W_whisky)
         THEN Str(W_bourbon)
         ELSE IF Includes(c, W_vodka) THEN Str(W_vodka)
         ELSE IF Includes(c, W_rum) THEN Str(W_rum)
         ELSE IF Includes(c, W_tequila) \/ Includes(c, W_mezcal) THEN Str(W_tequila)
         ELSE IF Includes(c, W_gin) THEN Str(W_gin)
         ELSE IF Includes(c, W_brandy) \/ Includes(c, W_cognac) THEN Str(W_brandy)
         ELSE IF Includes(c, W_wine) THEN Str(W_wine)
         ELSE IF Includes(c, W_beer) \/ Includes(c, W_ale) \/ Includes(c, W_lager)
                 \/ Includes(c, W_malt)
         THEN Str(W_beer)
         ELSE IF Includes(c, W_cocktail) THEN Str(W_cocktail)
         ELSE IF Includes(c, W_spirits) THEN Str(W_spirits)
         ELSE Str(W_other \o <<" ">> \o W_spirits)

\* mapCategory: the ladder of substring rules, first match wins
mapCategory(cat) ==
    IF ~Truthy(cat) THEN Str(W_spirits)
    ELSE LET c == ToLowerCase(ToStringJS(cat)) IN
         IF Includes(c, W_bourbon) \/ Includes(c, W_whiskey) \/ Includes(c, W_whisky)
         THEN Str(W_bourbon)
         ELSE IF Includes(c, W_vodka) THEN Str(W_vodka)
         ELSE IF Includes(c, W_rum) THEN Str(W_rum)
         ELSE IF Includes(c, W_tequila) \/ Includes(c, W_mezcal) THEN Str(W_tequila)
         ELSE IF Includes(c, W_gin) THEN Str(W_gin)
         ELSE IF Includes(c, W_brandy) \/ Includes(c, W_cognac) THEN Str(W_brandy)
         ELSE IF Includes(c, W_wine) THEN Str(W_wine)
         ELSE IF Includes(c, W_beer) \/ Includes(c, W_ale) \/ Includes(c, W_lager)
                 \/ Includes(c, W_malt)
         THEN Str(W_beer)
         ELSE IF Includes(c, W_cocktail) THEN Str(W_cocktail)
         ELSE IF Includes(c, W_spirits) THEN Str(W_spirits)
         ELSE Str(W_other)

\* the fields a raw record may carry; a field it lacks reads as undefined
RawFields ==
    {"name", "brand_name", "brand", "category", "subcategory", "class_type",
     "country", "origin", "region", "abv", "alcohol_content", "description",
     "image_url", "tasting_notes", "external_ids", "ttb_id",
     "set", "rarity", "source", "author", "subject", "cover_url", "download_url"}
EmptyRaw == [f \in RawFields |-> Undef]

\* the result of a transform: the canonical record, or Thrown when the
\* evaluation of one of its fields raised
Canonical(fields) ==
    IF \E f \in DOMAIN fields : fields[f].t = "throw" THEN Thrown
    ELSE [t |-> "rec", v |-> fields]

transformSpirit(record) ==
    Canonical([
        name |-> Substring(OrElse(record.name, OrElse(record.brand_name, Str(W_Unknown))), 255),
        brand |-> OrElse(OptSubstring(record.brand, 255), Null),
        category |-> mapCategory(record.category),
        subcategory |-> OrElse(OptSubstring(record.subcategory, 100),
                               OrElse(OptSubstring(record.class_type, 100), Null)),
        country |-> OrElse(OptSubstring(record.country, 100),
                           OrElse(OptSubstring(record.origin, 100), Null)),
        region |-> OrElse(OptSubstring(record.region, 100), Null),
        abv |-> IF record.abv.t = "num" THEN record.abv
                ELSE OrElse(ParseNumber(record.alcohol_content), Null),
        description |-> OrElse(OptSubstring(record.description, 2000), Null),
        image_url |-> OrElse(OptSubstring(record.image_url, 500), Null),
        tasting_notes |-> OrElse(OptSubstring(record.tasting_notes, 1000), Null),
        external_ids |-> IF Truthy(record.external_ids) THEN JSONStringify(record.external_ids)
                         ELSE IF Truthy(record.ttb_id) THEN JSONStringify(record.ttb_id)
                         ELSE Null ])

transformCard(record) ==
    Canonical([
        name |-> record.name,
        set_name |-> record.set,
        rarity |-> record.rarity,
        image_url |-> record.image_url,
        source |-> record.source,
        external_ids |-> IF Truthy(record.external_ids) THEN JSONStringify(record.external_ids)
                         ELSE Null ])

transformBook(record) ==
    Canonical([
        title |-> record.name,
        author |-> record.author,
        subject |-> record.subject,
        cover_url |-> record.cover_url,
        download_url |-> record.download_url,
        source |-> record.source,
        external_ids |-> IF Truthy(record.external_ids) THEN JSONStringify(record.external_ids)
                         ELSE Null ])

\* the registry's transform of a domain (SCRAPERS[type].transform)
transform(domain, record) ==
    CASE domain = "spirits" -> transformSpirit(record)
      [] domain = "cards" -> transformCard(record)
      [] domain = "books" -> transformBook(record)

(***************************************************************************)
(* Rate-limited fetcher (scrape.js 37-52).                                  *)
(***************************************************************************)
\* the default of the retries parameter
RetriesDefault == 3
\* what one attempt can be answered with
AttemptOutcomes == {"ok", "429", "404", "500", "network", "timeout"}

\* a fetcher whose 429 answers do not use up an attempt
fetchWithRetryFree429(outcome) ==
    /\ fw_status = "running"
    /\ fw_i < fw_retries
    /\ fw_requests' = fw_requests + 1
    /\ fw_hist' = Append(fw_hist, outcome)
    /\ fw_last' = outcome
    /\ fw_retries' = fw_retries
    /\ CASE outcome = "ok" ->
              /\ fw_status' = "returned"
              /\ UNCHANGED <<fw_i, fw_waited>>
         [] outcome = "429" ->
              /\ fw_waited' = fw_waited + 5000 * (fw_i + 1)
              /\ UNCHANGED <<fw_i, fw_status>>
         [] OTHER ->
              IF fw_i = fw_retries - 1
              THEN /\ fw_status' = "threw"
                   /\ UNCHANGED <<fw_i, fw_waited>>
              ELSE /\ fw_waited' = fw_waited + 1000 * (fw_i + 1)
                   /\ fw_i' = fw_i + 1
                   /\ fw_status' = "running"

\* One pass of the loop body: the request, and what follows its answer.
\* A 429 waits 5000 * (i + 1) and continues with the next i; when that was
\* the last i the loop ends and the function falls off its end, returning
\* undefined.  Any other failure is thrown into the catch, which rethrows
\* on the last attempt and otherwise waits 1000 * (i + 1).
fetchWithRetry(outcome) ==
    /\ fw_status = "running"
    /\ fw_i < fw_retries
    /\ fw_requests' = fw_requests + 1
    /\ fw_hist' = Append(fw_hist, outcome)
    /\ fw_last' = outcome
    /\ fw_retries' = fw_retries
    /\ CASE outcome = "ok" ->
              /\ fw_status' = "returned"
              /\ UNCHANGED <<fw_i, fw_waited>>
         [] outcome = "429" ->
              /\ fw_waited' = fw_waited + 5000 * (fw_i + 1)
              /\ fw_i' = fw_i + 1
              /\ fw_status' = IF fw_i + 1 < fw_retries THEN "running"
                               ELSE "returnedUndefined"
         [] OTHER ->
              IF fw_i = fw_retries - 1
              THEN /\ fw_status' = "threw"
                   /\ UNCHANGED <<fw_i, fw_waited>>
              ELSE /\ fw_waited' = fw_waited + 1000 * (fw_i + 1)
                   /\ fw_i' = fw_i + 1
                   /\ fw_status' = "running"

\* how a call of fetchWithRetry can end, as its callers see it
FetchResults == {"response", "undefined", "throw"}

(***************************************************************************)
(* The datastore behind the REST endpoint, and the batch uploader           *)
(* (scrape.js 738-779).                                                     *)
(***************************************************************************)
batchSize == 50
\* the Prefer header the uploader sends
PreferHeader == "resolution=ignore-duplicates"

RECURSIVE InsertIgnoringDuplicates(_, _)
\* rows already present are left out, the others are stored
InsertIgnoringDuplicates(tbl, rows) ==
    IF rows = <<>> THEN tbl
    ELSE InsertIgnoringDuplicates(
             IF BagIn(Head(rows), tbl) THEN tbl ELSE tbl (+) SetToBag({Head(rows)}),
             Tail(rows))

RECURSIVE InsertAll(_, _)
InsertAll(tbl, rows) ==
    IF rows = <<>> THEN tbl
    ELSE InsertAll(tbl (+) SetToBag({Head(rows)}), Tail(rows))

\* the table after a bulk insert the datastore applies
BulkInsert(tbl, rows, prefer) ==
    IF prefer = "resolution=ignore-duplicates"
    THEN InsertIgnoringDuplicates(tbl, rows)
    ELSE InsertAll(tbl, rows)

BagSize(b) == BagCardinality(b)

\* what one bulk-insert request can end with: a 2xx answer (the insert was
\* applied), a non-2xx answer, or a transport error
BatchOutcomes == {"ok", "non2xx", "transport"}
Applied(outcome) == outcome = "ok"

\* the call: the credential check, then the loop entry
\* an uploader that starts its batches without looking at the credential
uploadToSupabaseCallUnguarded(records) ==
    /\ up_records' = records
    /\ up_i' = 0
    /\ uploaded' = 0
    /\ errors' = 0
    /\ up_batches' = <<>>
    /\ up_new' = 0
    /\ up_status' = IF Len(records) = 0 THEN "returned" ELSE "running"

uploadToSupabaseCall(records) ==
    /\ up_records' = records
    /\ up_i' = 0
    /\ uploaded' = 0
    /\ errors' = 0
    /\ up_batches' = <<>>
    /\ up_new' = 0
    /\ up_status' = IF ~CONFIG.serviceKey THEN "threw"
                     ELSE IF Len(records) = 0 THEN "returned"
                     ELSE "running"

\* an uploader that gives up at the first failed batch
uploadBatchAborting(outcome) ==
    LET batch == SubSeq(up_records, up_i + 1, Min(up_i + batchSize, Len(up_records)))
        after == IF Applied(outcome) THEN BulkInsert(table, batch, PreferHeader) ELSE table
    IN  /\ up_status = "running"
        /\ up_i < Len(up_records)
        /\ ds_requests' = ds_requests + 1
        /\ table' = after
        /\ up_new' = up_new + (BagSize(after) - BagSize(table))
        /\ up_batches' = Append(up_batches, [from |-> up_i, size |-> Len(batch), outcome |-> outcome])
        /\ uploaded' = IF outcome = "ok" THEN uploaded + Len(batch) ELSE uploaded
        /\ errors' = IF outcome = "ok" THEN errors ELSE errors + Len(batch)
        /\ up_i' = up_i + batchSize
        /\ up_status' = IF outcome = "ok" /\ up_i + batchSize < Len(up_records)
                         THEN "running" ELSE "returned"
        /\ UNCHANGED <<up_records, up_run, up_first>>

\* an uploader that counts the rows its insert added to the shared table
uploadBatchCountingInserted(outcome) ==
    LET batch == SubSeq(up_records, up_i + 1, Min(up_i + batchSize, Len(up_records)))
        after == IF Applied(outcome) THEN BulkInsert(table, batch, PreferHeader) ELSE table
    IN  /\ up_status = "running"
        /\ up_i < Len(up_records)
        /\ ds_requests' = ds_requests + 1
        /\ table' = after
        /\ up_new' = up_new + (BagSize(after) - BagSize(table))
        /\ up_batches' = Append(up_batches, [from |-> up_i, size |-> Len(batch), outcome |-> outcome])
        /\ uploaded' = IF outcome = "ok" THEN uploaded + (BagSize(after) - BagSize(table)) ELSE uploaded
        /\ errors' = IF outcome = "ok" THEN errors ELSE errors + Len(batch)
        /\ up_i' = up_i + batchSize
        /\ up_status' = IF up_i + batchSize < Len(up_records) THEN "running" ELSE "returned"
        /\ UNCHANGED <<up_records, up_run, up_first>>

\* an uploader that does not count the batch of a request that never got an
\* answer
uploadBatchUncountedTransport(outcome) ==
    LET batch == SubSeq(up_records, up_i + 1, Min(up_i + batchSize, Len(up_records)))
        after == IF Applied(outcome) THEN BulkInsert(table, batch, PreferHeader) ELSE table
    IN  /\ up_status = "running"
        /\ up_i < Len(up_records)
        /\ ds_requests' = ds_requests + 1
        /\ table' = after
        /\ up_new' = up_new + (BagSize(after) - BagSize(table))
        /\ up_batches' = Append(up_batches, [from |-> up_i, size |-> Len(batch), outcome |-> outcome])
        /\ uploaded' = IF outcome = "ok" THEN uploaded + Len(batch) ELSE uploaded
        /\ errors' = IF outcome = "non2xx" THEN errors + Len(batch) ELSE errors
        /\ up_i' = up_i + batchSize
        /\ up_status' = IF up_i + batchSize < Len(up_records) THEN "running" ELSE "returned"
        /\ UNCHANGED <<up_records, up_run, up_first>>

\* one pass of the loop: slice the batch, post it, count it
uploadBatch(outcome) ==
    LET batch == SubSeq(up_records, up_i + 1, Min(up_i + batchSize, Len(up_records)))
        after == IF Applied(outcome) THEN BulkInsert(table, batch, PreferHeader) ELSE table
    IN  /\ up_status = "running"
        /\ up_i < Len(up_records)
        /\ ds_requests' = ds_requests + 1
        /\ table' = after
        /\ up_new' = up_new + (BagSize(after) - BagSize(table))
        /\ up_batches' = Append(up_batches, [from |-> up_i, size |-> Len(batch), outcome |-> outcome])
        /\ uploaded' = IF outcome = "ok" THEN uploaded + Len(batch) ELSE uploaded
        /\ errors' = IF outcome = "ok" THEN errors ELSE errors + Len(batch)
        /\ up_i' = up_i + batchSize
        /\ up_status' = IF up_i + batchSize < Len(up_records) THEN "running" ELSE "returned"
        /\ UNCHANGED <<up_records, up_run, up_first>>

(***************************************************************************)
(* Source scrapers (scrape.js 147-670).  One action is one pass of a        *)
(* scraper's loop: one fetch, what is done with its answer, and the loop    *)
(* conditions that decide whether the scraper goes on or returns.           *)
(***************************************************************************)
ScraperFns ==
    {"scrapeTTBCOLA", "scrapeOpenFoodFacts", "scrapeOpenBreweryDB", "scrapePunkAPI",
     "scrapeCocktailDB", "scrapeUntappd", "scrapePokemonTCG", "scrapeScryfall",
     "scrapeOpenLibrary", "scrapeGutenberg"}

\* options.limit || <the scraper's default>
EffectiveLimit(fn, options) ==
    IF Truthy(options) THEN options.v
    ELSE CASE fn = "scrapeTTBCOLA" -> 5000
           [] fn = "scrapeOpenFoodFacts" -> 20000
           [] fn = "scrapeOpenBreweryDB" -> 9000
           [] fn = "scrapePunkAPI" -> 500
           [] fn = "scrapePokemonTCG" -> 15000
           [] fn = "scrapeScryfall" -> 80000
           [] fn = "scrapeOpenLibrary" -> 50000
           [] fn = "scrapeGutenberg" -> 1000
           [] OTHER -> 0
limit == EffectiveLimit(sc_fn, sc_options)

\* results.slice(0, n)
Slice(seq, n) == SubSeq(seq, 1, Min(n, Len(seq)))

\* the items the remote sources serve: a well-formed one, and one whose name
\* is a number (beverages) or is missing (cards, books)
SpiritItems ==
    {[name |-> Str(<<"R", "u", "m">>), tags |-> Str(<<"e", "n", ":", "r", "u", "m", "s">>), abv |-> Num(40), id |-> <<"1">>],
     [name |-> Num(42), tags |-> Undef, abv |-> Undef, id |-> <<"2">>]}
CatalogItems ==
    {[name |-> Str(<<"R", "u", "m">>), tags |-> Undef, abv |-> Undef, id |-> <<"1">>],
     [name |-> Undef, tags |-> Undef, abv |-> Undef, id |-> <<"2">>]}
RemoteItems(fn) ==
    IF fn \in {"scrapePokemonTCG", "scrapeScryfall", "scrapeOpenLibrary", "scrapeGutenberg"}
    THEN CatalogItems ELSE SpiritItems

RECURSIVE SeqsUpTo(_, _)
\* the sequences over S of length at most n
SeqsUpTo(S, n) ==
    IF n = 0 THEN {<<>>}
    ELSE LET shorter == SeqsUpTo(S, n - 1)
         IN  shorter \cup {Append(q, x) : q \in shorter, x \in S}
SpiritPages == SeqsUpTo(SpiritItems, MaxPageItems)
CatalogPages == SeqsUpTo(CatalogItems, MaxPageItems)
\* the pages the remote can still serve
Pages(fn) ==
    {q \in (IF RemoteItems(fn) = CatalogItems THEN CatalogPages ELSE SpiritPages) :
        served + Len(q) <= MaxRemoteItems}

mapOFFCategory(tags) ==
    IF ~Truthy(tags) THEN Str(W_spirits)
    ELSE LET tagStr == ToLowerCase(tags.v) IN
         IF Includes(tagStr, W_whiskey) \/ Includes(tagStr, W_whisky) \/ Includes(tagStr, W_bourbon)
         THEN Str(W_bourbon)
         ELSE IF Includes(tagStr, W_vodka) THEN Str(W_vodka)
         ELSE IF Includes(tagStr, W_rum) THEN Str(W_rum)
         ELSE IF Includes(tagStr, W_tequila) \/ Includes(tagStr, W_mezcal) THEN Str(W_tequila)
         ELSE IF Includes(tagStr, W_gin) THEN Str(W_gin)
         ELSE IF Includes(tagStr, W_brandy) \/ Includes(tagStr, W_cognac) THEN Str(W_brandy)
         ELSE IF Includes(tagStr, W_wine) THEN Str(W_wine)
         ELSE IF Includes(tagStr, W_beer) \/ Includes(tagStr, W_ale) \/ Includes(tagStr, W_lager)
         THEN Str(W_beer)
         ELSE IF Includes(tagStr, W_liqueur) THEN Str(W_other)
         ELSE Str(W_spirits)

\* the raw record each scraper builds from one remote item
RawOpenFoodFacts(item) ==
    [EmptyRaw EXCEPT !.name = OrElse(item.name, Undef),
                     !.category = mapOFFCategory(item.tags),
                     !.alcohol_content = OrElse(ParseNumber(item.abv), Null),
                     !.source = Str(<<"o", "p", "e", "n", "f", "o", "o", "d", "f", "a", "c", "t", "s">>),
                     !.external_ids = Obj(item.id)]
RawOpenBreweryDB(item) ==
    [EmptyRaw EXCEPT !.name = item.name,
                     !.brand = item.name,
                     !.category = Str(W_beer),
                     !.country = Str(<<"U", "n", "i", "t", "e", "d", " ", "S", "t", "a", "t", "e", "s">>),
                     !.description = Str(<<"b", "r", "e", "w", "e", "r", "y", " ", "i", "n">>),
                     !.source = Str(<<"o", "p", "e", "n", "b", "r", "e", "w", "e", "r", "y", "d", "b">>),
                     !.external_ids = Obj(item.id)]
RawPunkAPI(item) ==
    [EmptyRaw EXCEPT !.name = item.name,
                     !.brand = Str(<<"B", "r", "e", "w", "D", "o", "g">>),
                     !.category = Str(W_beer),
                     !.abv = item.abv,
                     !.source = Str(<<"p", "u", "n", "k", "a", "p", "i">>),
                     !.external_ids = Obj(item.id)]
RawCocktailDB(item) ==
    [EmptyRaw EXCEPT !.name = item.name,
                     !.brand = Null,
                     !.category = Str(W_cocktail),
                     !.tasting_notes = Str(<<>>),
                     !.source = Str(<<"c", "o", "c", "k", "t", "a", "i", "l", "d", "b">>),
                     !.external_ids = Obj(item.id)]
RawPokemonTCG(item) ==
    [EmptyRaw EXCEPT !.name = item.name,
                     !.source = Str(<<"p", "o", "k", "e", "m", "o", "n", "t", "c", "g">>),
                     !.external_ids = Obj(item.id)]
RawScryfall(item) ==
    [EmptyRaw EXCEPT !.name = item.name,
                     !.source = Str(<<"s", "c", "r", "y", "f", "a", "l", "l">>),
                     !.external_ids = Obj(item.id)]
RawOpenLibrary(item) ==
    [EmptyRaw EXCEPT !.name = item.name,
                     !.subject = Str(<<"f", "i", "c", "t", "i", "o", "n">>),
                     !.cover_url = Null,
                     !.source = Str(<<"o", "p", "e", "n", "l", "i", "b", "r", "a", "r", "y">>),
                     !.external_ids = Obj(item.id)]
RawGutenberg(item) ==
    [EmptyRaw EXCEPT !.name = item.name,
                     !.source = Str(<<"g", "u", "t", "e", "n", "b", "e", "r", "g">>),
                     !.external_ids = Obj(item.id)]

\* what the TTB site can answer a detail request with: a transport error, a
\* non-2xx status, a page saying no record was found, or a label page with
\* its brand name and fanciful name
TTBAnswers ==
    {[kind |-> "neterr", brand |-> Null, fanciful |-> Null],
     [kind |-> "non2xx", brand |-> Null, fanciful |-> Null],
     [kind |-> "notfound", brand |-> Null, fanciful |-> Null],
     [kind |-> "page", brand |-> Str(<<"O", "l", "d">>), fanciful |-> Null],
     [kind |-> "page", brand |-> Null, fanciful |-> Str(<<"F", "a", "n">>)],
     [kind |-> "page", brand |-> Null, fanciful |-> Null]}

\* the category fetchTTBColaDetails derives from the class/type of the label
\* (237-243)
TTBCategory(classType) ==
    IF ~Truthy(classType) THEN Str(W_spirits)
    ELSE LET lc == ToLowerCase(classType.v) IN
         IF Includes(lc, W_wine) THEN Str(W_wine)
         ELSE IF Includes(lc, W_beer) \/ Includes(lc, W_malt) \/ Includes(lc, W_ale)
                 \/ Includes(lc, W_lager)
         THEN Str(W_beer)
         ELSE Str(W_spirits)

\* fetchTTBColaDetails: null unless a label page came back (the pages served
\* carry no class/type)
fetchTTBColaDetails(answer) ==
    IF answer.kind # "page" THEN [found |-> FALSE, record |-> EmptyRaw]
    ELSE [found |-> TRUE,
          record |-> [EmptyRaw EXCEPT !.ttb_id = Str(<<"2", "6">>),
                                      !.brand_name = OrElse(answer.brand, answer.fanciful),
                                      !.alcohol_content = Null,
                                      !.class_type = Null,
                                      !.origin = Null,
                                      !.category = TTBCategory(Null),
                                      !.source = Str(<<"t", "t", "b", "_", "c", "o", "l", "a">>)]]

\* bookkeeping of a fetch: whether it follows an earlier failed fetch of the
\* same scraper call, and how much had been collected at the first failure;
\* how many requests the call has made, and whether a delay (the scraper's
\* own or the backoff of the fetcher) has elapsed since this one
FetchNoted(failedNow, delayed) ==
    /\ sc_fetches' = sc_fetches + 1
    /\ sc_delayed' = delayed
    /\ sc_succeeded' = (sc_succeeded \/ ~failedNow)
    /\ sc_fetchAfterFail' = (sc_fetchAfterFail \/ sc_failed)
    /\ sc_failed' = (sc_failed \/ failedNow)
    /\ sc_atFail' = IF ~sc_failed /\ failedNow THEN Len(sc_results) ELSE sc_atFail

\* the call of a scraper function with options
ScraperCall(fn, options) ==
    /\ sc_fn' = fn
    /\ sc_options' = options
    /\ sc_idx' = 1
    /\ sc_page' = IF fn = "scrapeTTBCOLA" \/ fn = "scrapeOpenLibrary" THEN 0 ELSE 1
    /\ sc_url' = TRUE
    /\ sc_results' = <<>>
    /\ sc_failed' = FALSE
    /\ sc_fetchAfterFail' = FALSE
    /\ sc_atFail' = -1
    /\ sc_fetches' = 0
    /\ sc_delayed' = TRUE
    /\ sc_succeeded' = FALSE
    /\ sc_status' = IF fn = "scrapeUntappd" THEN "returned" ELSE "running"

RECURSIVE MapRaw(_, _)
\* the raw records a scraper builds from the items of one page
MapRaw(fn, items) ==
    IF items = <<>> THEN <<>>
    ELSE <<CASE fn = "scrapeOpenFoodFacts" -> RawOpenFoodFacts(Head(items))
             [] fn = "scrapeOpenBreweryDB" -> RawOpenBreweryDB(Head(items))
             [] fn = "scrapePunkAPI" -> RawPunkAPI(Head(items))
             [] fn = "scrapeCocktailDB" -> RawCocktailDB(Head(items))
             [] fn = "scrapePokemonTCG" -> RawPokemonTCG(Head(items))
             [] fn = "scrapeScryfall" -> RawScryfall(Head(items))
             [] fn = "scrapeOpenLibrary" -> RawOpenLibrary(Head(items))
             [] fn = "scrapeGutenberg" -> RawGutenberg(Head(items))>>
         \o MapRaw(fn, Tail(items))

\* an enumeration that gives up at the first candidate ID without a label
scrapeTTBCOLAAborting ==
    /\ sc_fn = "scrapeTTBCOLA"
    /\ sc_status = "running"
    /\ \E answer \in TTBAnswers :
         LET got == fetchTTBColaDetails(answer)
             keep == got.found /\ Truthy(got.record.brand_name)
             res == IF keep THEN Append(sc_results, got.record) ELSE sc_results
             seq == sc_page + 100
         IN  /\ keep => served < MaxRemoteItems
             /\ served' = IF keep THEN served + 1 ELSE served
             /\ FetchNoted(answer.kind \in {"neterr", "non2xx"}, TRUE)
             /\ sc_results' = res
             /\ IF ~got.found
                THEN /\ sc_status' = "returned"
                     /\ UNCHANGED <<sc_idx, sc_page>>
                ELSE IF seq < TTBSeqEnd /\ Len(res) < limit
                THEN /\ sc_page' = seq
                     /\ UNCHANGED <<sc_idx, sc_status>>
                ELSE IF sc_idx < 3 /\ Len(res) < limit
                THEN /\ sc_idx' = sc_idx + 1
                     /\ sc_page' = 0
                     /\ UNCHANGED sc_status
                ELSE /\ sc_status' = "returned"
                     /\ UNCHANGED <<sc_idx, sc_page>>
    /\ UNCHANGED <<sc_fn, sc_options, sc_url>>

\* scrapeTTBCOLA (147-200): one candidate ID.  A missing record or brand
\* name adds nothing; the walk goes on with the next ID, the next year, or
\* returns.
scrapeTTBCOLA ==
    /\ sc_fn = "scrapeTTBCOLA"
    /\ sc_status = "running"
    /\ \E answer \in TTBAnswers :
         LET got == fetchTTBColaDetails(answer)
             keep == got.found /\ Truthy(got.record.brand_name)
             res == IF keep THEN Append(sc_results, got.record) ELSE sc_results
             seq == sc_page + 100
         IN  /\ keep => served < MaxRemoteItems
             /\ served' = IF keep THEN served + 1 ELSE served
             /\ FetchNoted(answer.kind \in {"neterr", "non2xx"}, TRUE)
             /\ sc_results' = res
             /\ IF seq < TTBSeqEnd /\ Len(res) < limit
                THEN /\ sc_page' = seq
                     /\ UNCHANGED <<sc_idx, sc_status>>
                ELSE IF sc_idx < 3 /\ Len(res) < limit
                THEN /\ sc_idx' = sc_idx + 1
                     /\ sc_page' = 0
                     /\ UNCHANGED sc_status
                ELSE /\ sc_status' = "returned"
                     /\ UNCHANGED <<sc_idx, sc_page>>
    /\ UNCHANGED <<sc_fn, sc_options, sc_url>>

\* scrapeOpenFoodFacts (267-329): one page of one category.  A failed fetch
\* or an empty page breaks out of the page loop only, so the walk goes on
\* with the next category.
scrapeOpenFoodFacts ==
    /\ sc_fn = "scrapeOpenFoodFacts"
    /\ sc_status = "running"
    /\ \E fr \in FetchResults : \E items \in Pages(sc_fn) :
         LET failed == fr # "response"
             got == IF failed THEN <<>> ELSE items
             res == sc_results \o Slice(MapRaw(sc_fn, got), limit - Len(sc_results))
         IN  /\ failed => items = <<>>
             /\ served' = served + Len(got)
             /\ FetchNoted(failed, got # <<>> \/ fr = "undefined")
             /\ sc_results' = res
             /\ IF got # <<>> /\ Len(res) < limit
                THEN /\ sc_page' = sc_page + 1
                     /\ UNCHANGED <<sc_idx, sc_status>>
                ELSE IF sc_idx < NumCategories /\ Len(res) < limit
                THEN /\ sc_idx' = sc_idx + 1
                     /\ sc_page' = 1
                     /\ UNCHANGED sc_status
                ELSE /\ sc_status' = "returned"
                     /\ sc_page' = IF got # <<>> THEN sc_page + 1 ELSE sc_page
                     /\ UNCHANGED sc_idx
    /\ UNCHANGED <<sc_fn, sc_options, sc_url>>

\* the page loop shared by scrapeOpenBreweryDB, scrapePunkAPI and
\* scrapePokemonTCG: a failed fetch or an empty page ends the loop, and the
\* function returns results.slice(0, limit)
PagedStep(fn) ==
    /\ sc_fn = fn
    /\ sc_status = "running"
    /\ \E fr \in FetchResults : \E items \in Pages(sc_fn) :
         LET failed == fr # "response"
             got == IF failed THEN <<>> ELSE items
             res == sc_results \o MapRaw(sc_fn, got)
         IN  /\ failed => items = <<>>
             /\ served' = served + Len(got)
             /\ FetchNoted(failed, got # <<>> \/ fr = "undefined")
             /\ IF got # <<>> /\ Len(res) < limit
                THEN /\ sc_results' = res
                     /\ sc_page' = sc_page + 1
                     /\ UNCHANGED sc_status
                ELSE /\ sc_results' = Slice(res, limit)
                     /\ sc_page' = IF got # <<>> THEN sc_page + 1 ELSE sc_page
                     /\ sc_status' = "returned"
    /\ UNCHANGED <<sc_fn, sc_options, sc_idx, sc_url>>

scrapeOpenBreweryDB == PagedStep("scrapeOpenBreweryDB")
scrapePunkAPI == PagedStep("scrapePunkAPI")
scrapePokemonTCG == PagedStep("scrapePokemonTCG")

\* scrapeCocktailDB (440-483): one letter.  A failed fetch is logged and the
\* walk goes on with the next letter; options.limit is never read.
scrapeCocktailDB ==
    /\ sc_fn = "scrapeCocktailDB"
    /\ sc_status = "running"
    /\ \E fr \in FetchResults : \E items \in Pages(sc_fn) :
         LET failed == fr # "response"
             got == IF failed THEN <<>> ELSE items
         IN  /\ failed => items = <<>>
             /\ served' = served + Len(got)
             /\ FetchNoted(failed, fr # "throw")
             /\ sc_results' = sc_results \o MapRaw(sc_fn, got)
             /\ IF sc_idx < NumLetters
                THEN /\ sc_idx' = sc_idx + 1
                     /\ UNCHANGED sc_status
                ELSE /\ sc_status' = "returned"
                     /\ UNCHANGED sc_idx
    /\ UNCHANGED <<sc_fn, sc_options, sc_page, sc_url>>

\* the cursor loop shared by scrapeScryfall and scrapeGutenberg: the next
\* URL is whatever the answer advertises; a failed fetch ends the loop
CursorStep(fn) ==
    /\ sc_fn = fn
    /\ sc_status = "running"
    /\ \E fr \in FetchResults : \E items \in Pages(sc_fn) : \E more \in BOOLEAN :
         LET failed == fr # "response"
             got == IF failed THEN <<>> ELSE items
             res == sc_results \o MapRaw(sc_fn, got)
         IN  /\ failed => (items = <<>> /\ ~more)
             /\ more => sc_fetches + 1 < MaxFetches
             /\ served' = served + Len(got)
             /\ FetchNoted(failed, fr # "throw")
             /\ IF ~failed /\ more /\ Len(res) < limit
                THEN /\ sc_results' = res
                     /\ sc_url' = TRUE
                     /\ UNCHANGED sc_status
                ELSE /\ sc_results' = Slice(res, limit)
                     /\ sc_url' = IF failed THEN sc_url ELSE more
                     /\ sc_status' = "returned"
    /\ UNCHANGED <<sc_fn, sc_options, sc_idx, sc_page>>

scrapeScryfall == CursorStep("scrapeScryfall")
scrapeGutenberg == CursorStep("scrapeGutenberg")

\* scrapeOpenLibrary (586-627): one page of one subject.  As in
\* scrapeOpenFoodFacts a failed fetch breaks out of the page loop only.
scrapeOpenLibrary ==
    /\ sc_fn = "scrapeOpenLibrary"
    /\ sc_status = "running"
    /\ \E fr \in FetchResults : \E items \in Pages(sc_fn) :
         LET failed == fr # "response"
             got == IF failed THEN <<>> ELSE items
             res == sc_results \o MapRaw(sc_fn, got)
         IN  /\ failed => items = <<>>
             /\ served' = served + Len(got)
             /\ FetchNoted(failed, got # <<>> \/ fr = "undefined")
             /\ IF got # <<>> /\ Len(res) < limit
                THEN /\ sc_results' = res
                     /\ sc_page' = sc_page + 100
                     /\ UNCHANGED <<sc_idx, sc_status>>
                ELSE IF sc_idx < NumSubjects /\ Len(res) < limit
                THEN /\ sc_results' = res
                     /\ sc_idx' = sc_idx + 1
                     /\ sc_page' = 0
                     /\ UNCHANGED sc_status
                ELSE /\ sc_results' = Slice(res, limit)
                     /\ sc_status' = "returned"
                     /\ sc_page' = IF got # <<>> THEN sc_page + 100 ELSE sc_page
                     /\ UNCHANGED sc_idx
    /\ UNCHANGED <<sc_fn, sc_options, sc_url>>

(***************************************************************************)
(* Scraper registry (scrape.js 58-141) and the request handler (785-864).   *)
(***************************************************************************)
\* a query parameter the request does not carry
Missing == "<missing>"

\* Object.keys(SCRAPERS[type].sources), in declaration order, and the table
SCRAPERS ==
    [spirits |-> [table |-> "bv_spirits",
                  sources |-> <<"ttb_cola", "openfoodfacts", "brewery", "punkapi",
                                "cocktaildb", "untappd">>],
     cards |-> [table |-> "cards", sources |-> <<"pokemon", "scryfall">>],
     books |-> [table |-> "books", sources |-> <<"openlibrary", "gutenberg">>]]

\* the fn of a registered source
SourceFn(source) ==
    CASE source = "ttb_cola" -> "scrapeTTBCOLA"
      [] source = "openfoodfacts" -> "scrapeOpenFoodFacts"
      [] source = "brewery" -> "scrapeOpenBreweryDB"
      [] source = "punkapi" -> "scrapePunkAPI"
      [] source = "cocktaildb" -> "scrapeCocktailDB"
      [] source = "untappd" -> "scrapeUntappd"
      [] source = "pokemon" -> "scrapePokemonTCG"
      [] source = "scryfall" -> "scrapeScryfall"
      [] source = "openlibrary" -> "scrapeOpenLibrary"
      [] source = "gutenberg" -> "scrapeGutenberg"
requiresAuth(source) == source = "untappd"

Range(seq) == {seq[i] : i \in 1..Len(seq)}

\* Property names every object literal inherits from Object.prototype: a
\* lookup obj[key] with such a key yields a function, which is truthy.
ObjectPrototypeKeys == {"constructor", "toString"}

\* SCRAPERS[type] is truthy
TypeLookup(type) == type \in DOMAIN SCRAPERS \/ type \in ObjectPrototypeKeys
\* scraper.sources[s] is truthy
SourceLookup(type, s) == s \in Range(SCRAPERS[type].sources) \/ s \in ObjectPrototypeKeys

\* source === 'all' ? Object.keys(scraper.sources) : [source].filter(...)
\* a resolution of "all" that leaves the credential-gated sources out
ResolveSourcesOpen(type, source) ==
    IF source = "all" THEN SelectSeq(SCRAPERS[type].sources, LAMBDA n : ~requiresAuth(n))
    ELSE IF SourceLookup(type, source) THEN <<source>> ELSE <<>>

ResolveSources(type, source) ==
    IF source = "all" THEN SCRAPERS[type].sources
    ELSE IF SourceLookup(type, source) THEN <<source>> ELSE <<>>

NoEntry == [kind |-> "none", scraped |-> 0, uploaded |-> 0, errors |-> 0]
SkippedEntry == [kind |-> "skipped", scraped |-> 0, uploaded |-> 0, errors |-> 0]
ErrorEntry == [kind |-> "error", scraped |-> 0, uploaded |-> 0, errors |-> 0]
CountsEntry(s, u, e) == [kind |-> "counts", scraped |-> s, uploaded |-> u, errors |-> e]
NoLog == [invoked |-> FALSE, raw |-> -1, threw |-> "no"]
NoResults == [sources |-> <<>>, totalScraped |-> 0, totalUploaded |-> 0, totalErrors |-> 0]
NoBody == [error |-> "", valid |-> <<>>]

\* options = { limit: limit ? parseInt(limit) : undefined }
OptionsLimit(q) == IF Truthy(q) THEN ParseNumber(q) ELSE Undef

RECURSIVE MapTransform(_, _)
\* records.map(scraper.transform)
MapTransform(domain, records) ==
    IF records = <<>> THEN <<>>
    ELSE <<transform(domain, Head(records))>> \o MapTransform(domain, Tail(records))

ScraperReset ==
    /\ sc_fn' = "none"
    /\ sc_status' = "idle"
    /\ sc_options' = Undef
    /\ sc_idx' = 0
    /\ sc_page' = 0
    /\ sc_url' = FALSE
    /\ sc_results' = <<>>
    /\ sc_fetchAfterFail' = FALSE
    /\ sc_atFail' = -1
    /\ sc_fetches' = 0
    /\ sc_delayed' = TRUE
    /\ UNCHANGED <<served, sc_failed, sc_succeeded>>

UploadReset ==
    /\ up_status' = "idle"
    /\ up_records' = <<>>
    /\ up_i' = 0
    /\ uploaded' = 0
    /\ errors' = 0
    /\ up_batches' = <<>>
    /\ up_new' = 0
    /\ UNCHANGED <<up_run, up_first>>

\* handler, from its entry to the start of the loop over the sources
handler ==
    /\ h_pc = "start"
    /\ IF req.method = "OPTIONS"
       THEN /\ res_status' = 200
            /\ res_body' = NoBody
            /\ h_pc' = "done"
            /\ UNCHANGED <<h_sources, h_k, results, h_log>>
       ELSE IF req.type = Missing \/ ~TypeLookup(req.type)
       THEN /\ res_status' = 400
            /\ res_body' = [error |-> "Invalid type", valid |-> <<"spirits", "cards", "books">>]
            /\ h_pc' = "done"
            /\ UNCHANGED <<h_sources, h_k, results, h_log>>
       ELSE IF req.type \notin DOMAIN SCRAPERS
       THEN \* SCRAPERS[type] is an inherited function: scraper.sources is
            \* undefined and resolving the sources raises a TypeError
            /\ res_status' = 500
            /\ res_body' = [error |-> "TypeError", valid |-> <<>>]
            /\ h_pc' = "done"
            /\ UNCHANGED <<h_sources, h_k, results, h_log>>
       ELSE LET sources == ResolveSources(req.type, req.source) IN
            IF Len(sources) = 0
            THEN /\ res_status' = 400
                 /\ res_body' = [error |-> "Invalid source",
                                 valid |-> SCRAPERS[req.type].sources]
                 /\ h_pc' = "done"
                 /\ UNCHANGED <<h_sources, h_k, results, h_log>>
            ELSE /\ h_sources' = sources
                 /\ h_k' = 1
                 /\ results' = [NoResults EXCEPT !.sources = [i \in 1..Len(sources) |-> NoEntry]]
                 /\ h_log' = [i \in 1..Len(sources) |-> NoLog]
                 /\ h_pc' = "loop"
                 /\ UNCHANGED <<res_status, res_body>>
    /\ UNCHANGED <<req, CONFIG, tr_vars, fw_vars, ds_vars, up_vars, sc_vars>>

\* the head of one loop pass: the credential gate, then the scraper call
handlerSource ==
    /\ h_pc = "loop"
    /\ h_k <= Len(h_sources)
    /\ LET sourceName == h_sources[h_k] IN
       IF sourceName \in Range(SCRAPERS[req.type].sources)
          /\ requiresAuth(sourceName) /\ ~CONFIG.clientId
       THEN /\ results' = [results EXCEPT !.sources[h_k] = SkippedEntry]
            /\ h_k' = h_k + 1
            /\ UNCHANGED <<h_pc, h_log, sc_vars>>
       ELSE IF sourceName \notin Range(SCRAPERS[req.type].sources)
       THEN \* sourceConfig is an inherited function: sourceConfig.fn is not
            \* callable, and the TypeError is caught as this source's error
            /\ results' = [results EXCEPT !.sources[h_k] = ErrorEntry]
            /\ h_log' = [h_log EXCEPT ![h_k].threw = "call"]
            /\ h_k' = h_k + 1
            /\ UNCHANGED <<h_pc, sc_vars>>
       ELSE /\ ScraperCall(SourceFn(sourceName), OptionsLimit(req.limit))
            /\ h_log' = [h_log EXCEPT ![h_k].invoked = TRUE]
            /\ h_pc' = "scraping"
            /\ UNCHANGED <<results, h_k, served>>
    /\ UNCHANGED <<req, h_sources, res_status, res_body, CONFIG, tr_vars, fw_vars, ds_vars, up_vars>>

\* a caller that uploads whatever the request says
ShouldUploadAlways(n) == n > 0

\* a caller that hands the uploader an empty list too
ShouldUploadEmpty(n) == req.skip_upload # "true"

\* skip_upload !== 'true' && transformed.length > 0
ShouldUpload(n) == req.skip_upload # "true" /\ n > 0

\* after the scraper returned: transform, record the counts, and call the
\* uploader unless skip_upload is 'true' or nothing was scraped
handlerTransform ==
    /\ h_pc = "scraping"
    /\ sc_status = "returned"
    /\ \E transformed \in {MapTransform(req.type, sc_results)} :
       LET n == Len(transformed)
       IN  IF \E i \in 1..n : transformed[i].t = "throw"
           THEN /\ results' = [results EXCEPT !.sources[h_k] = ErrorEntry]
                /\ h_log' = [h_log EXCEPT ![h_k].raw = Len(sc_results), ![h_k].threw = "transform"]
                /\ h_k' = h_k + 1
                /\ h_pc' = "loop"
                /\ UNCHANGED up_vars
           ELSE /\ h_log' = [h_log EXCEPT ![h_k].raw = Len(sc_results)]
                /\ IF ShouldUpload(n)
                   THEN /\ uploadToSupabaseCall(transformed)
                        /\ results' = [results EXCEPT !.sources[h_k] = CountsEntry(n, 0, 0),
                                                       !.totalScraped = @ + n]
                        /\ h_pc' = "uploading"
                        /\ UNCHANGED <<h_k, up_run, up_first>>
                   ELSE /\ results' = [results EXCEPT !.sources[h_k] = CountsEntry(n, 0, 0),
                                                       !.totalScraped = @ + n]
                        /\ h_k' = h_k + 1
                        /\ h_pc' = "loop"
                        /\ UNCHANGED up_vars
    /\ ScraperReset
    /\ UNCHANGED <<req, h_sources, res_status, res_body, CONFIG, tr_vars, fw_vars, ds_vars>>

\* the uploader returned its counts
handlerUploaded ==
    /\ h_pc = "uploading"
    /\ up_status = "returned"
    /\ results' = [results EXCEPT !.sources[h_k].uploaded = uploaded,
                                   !.sources[h_k].errors = errors,
                                   !.totalUploaded = @ + uploaded,
                                   !.totalErrors = @ + errors]
    /\ h_k' = h_k + 1
    /\ h_pc' = "loop"
    /\ UploadReset
    /\ UNCHANGED <<req, h_sources, res_status, res_body, h_log, CONFIG, tr_vars, fw_vars, ds_vars, sc_vars>>

\* a handler whose catch gives up on the remaining sources
handlerCatchAborting ==
    /\ h_pc = "uploading"
    /\ up_status = "threw"
    /\ results' = [results EXCEPT !.sources[h_k] = ErrorEntry]
    /\ h_log' = [h_log EXCEPT ![h_k].threw = "upload"]
    /\ h_k' = Len(h_sources) + 1
    /\ h_pc' = "loop"
    /\ UploadReset
    /\ UNCHANGED <<req, h_sources, res_status, res_body, CONFIG, tr_vars, fw_vars, ds_vars, sc_vars>>

\* the uploader threw: the catch replaces the source's entry
handlerCatch ==
    /\ h_pc = "uploading"
    /\ up_status = "threw"
    /\ results' = [results EXCEPT !.sources[h_k] = ErrorEntry]
    /\ h_log' = [h_log EXCEPT ![h_k].threw = "upload"]
    /\ h_k' = h_k + 1
    /\ h_pc' = "loop"
    /\ UploadReset
    /\ UNCHANGED <<req, h_sources, res_status, res_body, CONFIG, tr_vars, fw_vars, ds_vars, sc_vars>>

\* res.status(200).json(results), after the last source
\* a handler that answers as soon as the loop is between two sources
handlerRespondEarly ==
    /\ h_pc = "loop"
    /\ res_status' = 200
    /\ res_body' = NoBody
    /\ h_pc' = "done"
    /\ UNCHANGED <<req, h_sources, h_k, results, h_log, CONFIG, tr_vars, fw_vars, ds_vars, up_vars, sc_vars>>

\* a handler that answers 500 when one of its sources failed
handlerRespondFailing ==
    /\ h_pc = "loop"
    /\ h_k > Len(h_sources)
    /\ res_status' = IF \E k \in 1..Len(results.sources) : results.sources[k].kind = "error"
                      THEN 500 ELSE 200
    /\ res_body' = NoBody
    /\ h_pc' = "done"
    /\ UNCHANGED <<req, h_sources, h_k, results, h_log, CONFIG, tr_vars, fw_vars, ds_vars, up_vars, sc_vars>>

handlerRespond ==
    /\ h_pc = "loop"
    /\ h_k > Len(h_sources)
    /\ res_status' = 200
    /\ res_body' = NoBody
    /\ h_pc' = "done"
    /\ UNCHANGED <<req, h_sources, h_k, results, h_log, CONFIG, tr_vars, fw_vars, ds_vars, up_vars, sc_vars>>

(***************************************************************************)
(* Initial values.                                                          *)
(***************************************************************************)
NotYet == [t |-> "none", v |-> 0]
Configs == [serviceKey : BOOLEAN, clientId : BOOLEAN, clientSecret : BOOLEAN]
NoConfig == [serviceKey |-> FALSE, clientId |-> FALSE, clientSecret |-> FALSE]
NoRequest == [method |-> "GET", type |-> Missing, source |-> Missing,
              skip_upload |-> Missing, limit |-> Undef]

TransformIdle == tr_domain = "none" /\ tr_raw = EmptyRaw /\ tr_out = NotYet
FetchIdle ==
    /\ fw_retries = 0 /\ fw_i = 0 /\ fw_status = "idle" /\ fw_requests = 0
    /\ fw_waited = 0 /\ fw_last = "none" /\ fw_hist = <<>>
DatastoreEmpty == table = EmptyBag /\ ds_requests = 0
UploadIdle ==
    /\ up_status = "idle" /\ up_records = <<>> /\ up_i = 0 /\ uploaded = 0 /\ errors = 0
    /\ up_batches = <<>> /\ up_new = 0 /\ up_run = 0
    /\ up_first = [uploaded |-> 0, errors |-> 0, rows |-> 0]
ScraperIdle ==
    /\ sc_fn = "none" /\ sc_status = "idle" /\ sc_options = Undef /\ sc_idx = 0
    /\ sc_page = 0 /\ sc_url = FALSE /\ sc_results = <<>> /\ sc_failed = FALSE
    /\ sc_fetchAfterFail = FALSE /\ sc_atFail = -1 /\ served = 0
    /\ sc_fetches = 0 /\ sc_delayed = TRUE /\ sc_succeeded = FALSE
HandlerIdle ==
    /\ req = NoRequest /\ h_pc = "idle" /\ h_sources = <<>> /\ h_k = 0
    /\ results = NoResults /\ res_status = 0 /\ res_body = NoBody /\ h_log = <<>>

(***************************************************************************)
(* Spec: one invocation of the handler, for every request and               *)
(* configuration, against every behaviour of the remote sources and of the  *)
(* datastore.                                                               *)
(***************************************************************************)
AllSources ==
    Range(SCRAPERS.spirits.sources) \cup Range(SCRAPERS.cards.sources)
        \cup Range(SCRAPERS.books.sources)
LimitInputs == {Undef} \cup {Str(NatToChars(n)) : n \in 1..MaxLimit}
Requests ==
    [method : {"GET", "OPTIONS"},
     type : {"spirits", "cards", "books", "bogus", "toString", Missing},
     source : {"all", "bogus", "toString", Missing} \cup AllSources,
     skip_upload : {"true", Missing},
     limit : LimitInputs]

Init ==
    /\ req \in Requests
    /\ CONFIG \in Configs
    /\ h_pc = "start" /\ h_sources = <<>> /\ h_k = 0
    /\ results = NoResults /\ res_status = 0 /\ res_body = NoBody /\ h_log = <<>>
    /\ TransformIdle /\ FetchIdle /\ DatastoreEmpty /\ UploadIdle /\ ScraperIdle

ScraperStep ==
    /\ \/ scrapeTTBCOLA
       \/ scrapeOpenFoodFacts
       \/ scrapeOpenBreweryDB
       \/ scrapePunkAPI
       \/ scrapeCocktailDB
       \/ scrapePokemonTCG
       \/ scrapeScryfall
       \/ scrapeOpenLibrary
       \/ scrapeGutenberg
    /\ UNCHANGED <<tr_vars, fw_vars, CONFIG, ds_vars, up_vars, h_vars>>

UploadStep ==
    /\ \E outcome \in BatchOutcomes : uploadBatch(outcome)
    /\ UNCHANGED <<tr_vars, fw_vars, CONFIG, sc_vars, h_vars>>

Next ==
    \/ handler
    \/ handlerSource
    \/ ScraperStep
    \/ handlerTransform
    \/ UploadStep
    \/ handlerUploaded
    \/ handlerCatch
    \/ handlerRespond

Spec == Init /\ [][Next]_vars

(***************************************************************************)
(* SpecConcurrent: the request above with a second invocation of the       *)
(* handler interleaved at its suspension points.  An invocation keeps its  *)
(* report, its record lists and its counters in locals of handler, of the  *)
(* scraper and of uploadToSupabase; CONFIG and SCRAPERS are module         *)
(* constants no statement assigns.  What one invocation can change for the *)
(* other is the table its bulk inserts reach: OtherRun is such an insert,  *)
(* of a row this invocation is itself about to send, applied while this    *)
(* invocation waits for a fetch.                                           *)
(***************************************************************************)
OtherRun ==
    /\ up_status = "running"
    /\ up_i < Len(up_records)
    /\ \E j \in (up_i + 1)..Len(up_records) :
         /\ ~BagIn(up_records[j], table)
         /\ table' = BulkInsert(table, <<up_records[j]>>, PreferHeader)
    /\ UNCHANGED <<ds_requests, tr_vars, fw_vars, CONFIG, up_vars, sc_vars, h_vars>>

NextConcurrent ==
    \/ handler
    \/ handlerSource
    \/ ScraperStep
    \/ handlerTransform
    \/ UploadStep
    \/ handlerUploaded
    \/ handlerCatch
    \/ handlerRespond
    \/ OtherRun

SpecConcurrent == Init /\ [][NextConcurrent]_vars

(***************************************************************************)
(* SpecScrape: one call of one scraper function.                            *)
(***************************************************************************)
InitScrape ==
    /\ CONFIG = NoConfig
    /\ TransformIdle /\ FetchIdle /\ DatastoreEmpty /\ UploadIdle /\ ScraperIdle /\ HandlerIdle

CallScraper ==
    /\ sc_status = "idle"
    /\ \E fn \in ScraperFns : \E options \in {Undef} \cup {Num(n) : n \in 1..MaxLimit} :
         ScraperCall(fn, options)
    /\ UNCHANGED <<served, tr_vars, fw_vars, CONFIG, ds_vars, up_vars, h_vars>>

NextScrape == CallScraper \/ ScraperStep
SpecScrape == InitScrape /\ [][NextScrape]_vars

(***************************************************************************)
(* SpecFetch: one call of fetchWithRetry.                                   *)
(***************************************************************************)
InitFetch ==
    /\ CONFIG = NoConfig
    /\ TransformIdle /\ FetchIdle /\ DatastoreEmpty /\ UploadIdle /\ ScraperIdle /\ HandlerIdle

CallFetch ==
    /\ fw_status = "idle"
    /\ fw_retries' \in 1..RetriesDefault
    /\ fw_status' = "running"
    /\ UNCHANGED <<fw_i, fw_requests, fw_waited, fw_last, fw_hist>>
    /\ UNCHANGED <<tr_vars, CONFIG, ds_vars, up_vars, sc_vars, h_vars>>

FetchStep ==
    /\ \E outcome \in AttemptOutcomes : fetchWithRetry(outcome)
    /\ UNCHANGED <<tr_vars, CONFIG, ds_vars, up_vars, sc_vars, h_vars>>

NextFetch == CallFetch \/ FetchStep
SpecFetch == InitFetch /\ [][NextFetch]_vars

(***************************************************************************)
(* SpecUpload: uploadToSupabase called on a list of records, and then       *)
(* called again on the same list.                                           *)
(***************************************************************************)
UploadSizes ==
    {n \in 0..(MaxBatches * batchSize) : n % batchSize \in {0, 1, batchSize - 1}}
UploadInputs == {[i \in 1..n |-> i] : n \in UploadSizes} \cup {<<1, 1>>}

InitUpload ==
    /\ CONFIG \in {c \in Configs : ~c.clientId /\ ~c.clientSecret}
    /\ TransformIdle /\ FetchIdle /\ DatastoreEmpty /\ UploadIdle /\ ScraperIdle /\ HandlerIdle

CallUpload ==
    /\ up_status = "idle"
    /\ \E records \in UploadInputs : uploadToSupabaseCall(records)
    /\ up_run' = 1
    /\ UNCHANGED <<up_first, tr_vars, fw_vars, CONFIG, ds_vars, sc_vars, h_vars>>

UploadAgain ==
    /\ up_status = "returned"
    /\ up_run = 1
    /\ uploadToSupabaseCall(up_records)
    /\ up_run' = 2
    /\ up_first' = [uploaded |-> uploaded, errors |-> errors, rows |-> BagSize(table)]
    /\ UNCHANGED <<tr_vars, fw_vars, CONFIG, ds_vars, sc_vars, h_vars>>

NextUpload == CallUpload \/ UploadStep \/ UploadAgain
SpecUpload == InitUpload /\ [][NextUpload]_vars

(***************************************************************************)
(* SpecTransform: a transform applied to one raw record.                    *)
(***************************************************************************)
Domains == {"spirits", "cards", "books"}
LongText == [i \in 1..(255 + LongExtra) |-> "x"]
TransformValues ==
    {Undef, Null, Str(<<>>), Str(<<"R", "u", "m">>), Str(<<"7">>), Str(LongText),
     Num(0), Num(42), Obj(<<"1">>)}
\* category texts as the sources deliver them
CategoryTexts ==
    {<<"S", "c", "o", "t", "c", "h">>, <<"R", "y", "e">>,
     <<"I", "r", "i", "s", "h", " ", "W", "h", "i", "s", "k", "e", "y">>,
     <<"B", "o", "u", "r", "b", "o", "n">>, <<"G", "i", "n">>,
     <<"S", "a", "k", "e">>}
\* tag lists of Open Food Facts products, joined, and class/type texts of
\* TTB labels
OFFTagSamples ==
    {Str(w) : w \in {W_whiskey, W_whisky, W_bourbon, W_vodka, W_rum, W_tequila, W_mezcal,
                      W_gin, W_brandy, W_cognac, W_wine, W_beer, W_ale, W_lager, W_liqueur,
                      <<"s", "a", "k", "e">>}} \cup {Undef}
ClassTypeSamples ==
    {Str(w) : w \in {<<"W", "i", "n", "e">>, <<"B", "e", "e", "r">>, <<"M", "a", "l", "t">>,
                      <<"A", "l", "e">>, <<"L", "a", "g", "e", "r">>, <<"V", "o", "d", "k", "a">>}}
    \cup {Null}
\* the category values the spirits scrapers put into a raw record: the
\* outputs of mapOFFCategory (306), the category of fetchTTBColaDetails
\* (254), and the literals beer (369, 413) and cocktail (464)
ScraperCategories ==
    {mapOFFCategory(tags) : tags \in OFFTagSamples}
    \cup {TTBCategory(classType) : classType \in ClassTypeSamples}
    \cup {Str(W_beer), Str(W_cocktail)}
\* the raw records tried: every record carrying at most two fields, and the
\* records carrying a category only, a text or a value a scraper produces
RawSamples ==
    {[[EmptyRaw EXCEPT ![f] = x] EXCEPT ![g] = y] :
        f \in RawFields, g \in RawFields, x \in TransformValues, y \in TransformValues}
    \cup {[EmptyRaw EXCEPT !.category = Str(c)] : c \in CategoryTexts}
    \cup {[EmptyRaw EXCEPT !.category = c] : c \in ScraperCategories}

InitTransform ==
    /\ tr_domain \in Domains
    /\ tr_raw \in RawSamples
    /\ tr_out = NotYet
    /\ CONFIG = NoConfig
    /\ FetchIdle /\ DatastoreEmpty /\ UploadIdle /\ ScraperIdle /\ HandlerIdle

ApplyTransform ==
    /\ tr_out = NotYet
    /\ tr_out' = transform(tr_domain, tr_raw)
    /\ UNCHANGED <<tr_domain, tr_raw, fw_vars, CONFIG, ds_vars, up_vars, sc_vars, h_vars>>

NextTransform == ApplyTransform
SpecTransform == InitTransform /\ [][NextTransform]_vars

(***************************************************************************)
(* Properties.                                                              *)
(***************************************************************************)
Entry(k) == results.sources[k]
Sources == 1..Len(results.sources)
Registered(k) == h_sources[k] \in Range(SCRAPERS[req.type].sources)
CredentialGated(k) == Registered(k) /\ requiresAuth(h_sources[k]) /\ ~CONFIG.clientId
Responded200 == h_pc = "done" /\ res_status = 200 /\ req.method = "GET"

\* the source whose outcome has just been recorded, once the loop is back
\* at its head; sc_failed then still tells whether one of its fetches failed
JustProcessed == h_k - 1

\* C1 (as stated): when the processing of source A throws, A is reported
\* {error}, and every other resolved source is still processed and reports a
\* non-error outcome whenever its own fetches succeeded.  The outcome of a
\* source B is looked at when it is recorded after an earlier source A threw.
C1_OthersNonErrorWhenFetchesSucceed ==
    /\ \A a \in Sources : h_log[a].threw # "no" => Entry(a).kind = "error"
    /\ Responded200 => \A b \in Sources : Entry(b).kind # "none"
    /\ (/\ h_pc = "loop"
        /\ JustProcessed >= 1
        /\ h_log[JustProcessed].invoked
        /\ ~sc_failed
        /\ \E a \in 1..(JustProcessed - 1) : h_log[a].threw # "no")
       => Entry(JustProcessed).kind # "error"

\* C1 (amended): a source whose processing throws is reported {error}, and
\* whatever happened to the sources before it every resolved source is
\* processed: it is scraped unless it is gated by a missing credential or is
\* no registered source, and it is reported {error} only when its own call,
\* transform or upload raised (an upload raises only for the missing
\* datastore credential), otherwise {scraped, uploaded, errors}.
C1_FailureIsolation ==
    /\ \A k \in Sources :
          /\ (h_log[k].threw # "no") <=> (Entry(k).kind = "error")
          /\ h_log[k].threw = "upload" =>
                ~CONFIG.serviceKey /\ req.skip_upload # "true" /\ h_log[k].raw > 0
          /\ h_log[k].threw = "transform" => req.type = "spirits" /\ h_log[k].raw > 0
          /\ h_log[k].threw = "call" => ~Registered(k)
    /\ Responded200 =>
          \A k \in Sources :
              /\ Entry(k).kind # "none"
              /\ (Registered(k) /\ ~CredentialGated(k)) => h_log[k].invoked
              /\ h_log[k].threw = "no" => Entry(k).kind \in {"counts", "skipped"}

\* C1 witness: a run in which one source was reported {error} and a later
\* source was scraped and reported its counts
C1_Witness ==
    /\ Responded200
    /\ \E a \in Sources : \E b \in Sources :
          /\ a < b
          /\ Entry(a).kind = "error"
          /\ Entry(b).kind = "counts"
          /\ Entry(b).scraped > 0

RECURSIVE SumSizes(_, _)
\* the records of the batches of a log whose outcome is in S
SumSizes(log, S) ==
    IF log = <<>> THEN 0
    ELSE (IF Head(log).outcome \in S THEN Head(log).size ELSE 0) + SumSizes(Tail(log), S)

\* C2: whenever uploadToSupabase runs its loop, the batches sent so far are
\* the consecutive slices of at most 50 records in order, each sent once; a
\* 2xx batch adds its size to uploaded and any other batch adds its size to
\* errors; and when the call returns every batch has been sent, whatever
\* the outcomes of the batches before it.
C2_BatchIsolation ==
    up_status \in {"running", "returned"} =>
        /\ \A k \in 1..Len(up_batches) :
              /\ up_batches[k].from = (k - 1) * batchSize
              /\ up_batches[k].size = Min(batchSize, Len(up_records) - up_batches[k].from)
        /\ uploaded = SumSizes(up_batches, {"ok"})
        /\ errors = SumSizes(up_batches, BatchOutcomes \ {"ok"})
        /\ up_status = "running" => Len(up_batches) * batchSize < Len(up_records)
        /\ up_status = "returned" =>
              /\ Len(up_batches) * batchSize >= Len(up_records)
              /\ (Len(up_batches) - 1) * batchSize < Len(up_records) \/ Len(up_batches) = 0

\* C2 witness: an upload of three batches returned after its second batch
\* failed and its third succeeded
C2_Witness ==
    /\ up_status = "returned"
    /\ Len(up_batches) = 3
    /\ up_batches[1].outcome = "ok"
    /\ up_batches[2].outcome # "ok"
    /\ up_batches[3].outcome = "ok"
    /\ uploaded = up_batches[1].size + up_batches[3].size
    /\ errors = up_batches[2].size

\* C3: a call of fetchWithRetry ends either by returning a 2xx response or
\* by throwing; when every attempt was unsuccessful it throws the last
\* error, and it never returns without a response.
C3_ResponseOrError ==
    fw_status \notin {"idle", "running"} =>
        \/ fw_status = "returned" /\ fw_last = "ok"
        \/ fw_status = "threw" /\ fw_last # "ok"

\* C4: with a limit L >= 1 in the request, every scraper of the run is called
\* with L and every source's reported scraped count is at most L.
C4_LimitCap ==
    Truthy(req.limit) =>
        /\ sc_status = "running" => sc_options = ParseNumber(req.limit)
        /\ \A k \in Sources :
              Entry(k).kind = "counts" => Entry(k).scraped <= ParseNumber(req.limit).v

PaginationFns ==
    {"scrapeOpenFoodFacts", "scrapeOpenBreweryDB", "scrapePunkAPI", "scrapePokemonTCG",
     "scrapeScryfall", "scrapeOpenLibrary", "scrapeGutenberg"}

\* C5: in a pagination-based scraper, once a fetch has failed no further
\* fetch is issued, and the scraper returns exactly the records it had
\* accumulated before the failure.
C5_StopsAtFirstFailure ==
    sc_fn \in PaginationFns =>
        /\ ~sc_fetchAfterFail
        /\ (sc_status = "returned" /\ sc_failed) => Len(sc_results) = sc_atFail

\* C6: the transform of every domain returns a canonical record for every
\* raw record, whatever the types of its fields; it never raises.
C6_TransformTotal == tr_out.t # "throw"

\* the fields of a canonical record that name it
RequiredFields(domain) ==
    CASE domain = "spirits" -> {"name", "category"}
      [] domain = "cards" -> {"name"}
      [] domain = "books" -> {"title"}

\* C7: for a raw record lacking every field, the transform of every domain
\* yields a record in which every required field is present with a default:
\* none is left undefined.
C7_RequiredDefaults ==
    (tr_raw = EmptyRaw /\ tr_out # NotYet) =>
        /\ tr_out.t = "rec"
        /\ \A f \in RequiredFields(tr_domain) : tr_out.v[f].t # "undefined"

\* C8: a second upload of the same records leaves no duplicated row, raises
\* no error, and reports as uploaded at most the number of rows that were
\* new to the table in that run.
C8_SecondUploadCountsNewRows ==
    up_run = 2 =>
        /\ up_status # "threw"
        /\ \A r \in BagToSet(table) : CopiesIn(r, table) = 1
        /\ up_status = "returned" => uploaded <= up_new

\* C9 (as stated): with skip_upload set every resolved source is scraped and
\* transformed and reports as scraped the number of raw records its scraper
\* returned; no request reaches the datastore, and the per-source and total
\* uploaded and errors counts are 0.
C9_DryRunScrapesEverySource ==
    (req.skip_upload = "true" /\ Responded200) =>
        /\ ds_requests = 0
        /\ results.totalUploaded = 0 /\ results.totalErrors = 0
        /\ \A k \in Sources :
              /\ h_log[k].invoked
              /\ Entry(k) = CountsEntry(h_log[k].raw, 0, 0)

RECURSIVE SumScraped(_)
SumScraped(entries) ==
    IF entries = <<>> THEN 0
    ELSE (IF Head(entries).kind = "counts" THEN Head(entries).scraped ELSE 0)
         + SumScraped(Tail(entries))

\* C9 (amended): with skip_upload set to 'true' the uploader is never called
\* and no request reaches the datastore; every resolved source is skipped
\* for a missing credential, reported {error} (its scraper could not be
\* called or its transform raised) or reported {scraped: n, uploaded: 0,
\* errors: 0} with n the number of raw records its scraper returned; total
\* uploaded and errors are 0 and totalScraped is the sum of the scraped counts.
C9_DryRun ==
    req.skip_upload = "true" =>
        /\ ds_requests = 0 /\ table = EmptyBag /\ up_status = "idle"
        /\ results.totalUploaded = 0 /\ results.totalErrors = 0
        /\ \A k \in Sources :
              Entry(k).kind = "counts" =>
                  /\ h_log[k].invoked
                  /\ Entry(k) = CountsEntry(h_log[k].raw, 0, 0)
        /\ Responded200 =>
              /\ results.totalScraped = SumScraped(results.sources)
              /\ \A k \in Sources :
                    \/ Entry(k).kind = "skipped" /\ CredentialGated(k) /\ ~h_log[k].invoked
                    \/ Entry(k).kind = "error" /\ h_log[k].threw \in {"call", "transform"}
                    \/ Entry(k).kind = "counts"

\* C9 witness: a dry run that answered 200 with a source reporting records
C9_Witness ==
    /\ req.skip_upload = "true"
    /\ Responded200
    /\ \E k \in Sources : Entry(k).kind = "counts" /\ Entry(k).scraped > 0

\* C10: for a registered domain and a source selector that is neither "all"
\* nor a registered source of the domain (or is missing) the handler answers
\* 400 with the domain's source keys as validSources; no scraper is run and
\* no upload is attempted.
C10_UnknownSourceRejected ==
    (/\ req.method = "GET"
     /\ req.type \in DOMAIN SCRAPERS
     /\ req.source # "all"
     /\ req.source \notin Range(SCRAPERS[req.type].sources)) =>
        /\ sc_status = "idle" /\ up_status = "idle" /\ ds_requests = 0
        /\ h_pc = "done" =>
              /\ res_status = 400
              /\ res_body = [error |-> "Invalid source", valid |-> SCRAPERS[req.type].sources]

\* C11: a registered source flagged requiresAuth, when the Untappd client id
\* or the client secret is missing from the configuration, never has its
\* scraper invoked and is recorded as skipped (no error, no scraped counts);
\* the run goes on to the remaining sources and the response status is 200.
C11_CredentialGatedSkip ==
    \A k \in Sources :
        (/\ Registered(k)
         /\ requiresAuth(h_sources[k])
         /\ (~CONFIG.clientId \/ ~CONFIG.clientSecret)) =>
            /\ ~h_log[k].invoked
            /\ Entry(k).kind \in {"none", "skipped"}
            /\ h_pc = "done" =>
                  /\ res_status = 200
                  /\ \A j \in Sources : Entry(j).kind # "none"
                  /\ Entry(k).kind = "skipped"

\* C12: for every registered domain, source = "all" resolves to exactly the
\* registered sources of the domain, each once, in the order of the registry
\* (for spirits: ttb_cola, openfoodfacts, brewery, punkapi, cocktaildb,
\* untappd), and the handler processes them in that order.
C12_AllInRegistryOrder ==
    (/\ req.method = "GET"
     /\ req.source = "all"
     /\ req.type \in DOMAIN SCRAPERS
     /\ h_pc # "start") =>
        /\ h_sources = SCRAPERS[req.type].sources
        /\ req.type = "spirits" =>
              h_sources = <<"ttb_cola", "openfoodfacts", "brewery", "punkapi",
                            "cocktaildb", "untappd">>
        /\ \A i \in 1..Len(h_sources) : \A j \in 1..Len(h_sources) :
              h_sources[i] = h_sources[j] => i = j
        /\ Len(results.sources) = Len(h_sources)
        /\ \A k \in Sources :
              /\ k < h_k => Entry(k).kind # "none"
              /\ k > h_k => Entry(k).kind = "none" /\ ~h_log[k].invoked

\* C12 witness: a spirits run with source = "all" that answered after its
\* six sources, the first five scraped and the third with records
C12_Witness ==
    /\ Responded200
    /\ req.type = "spirits" /\ req.source = "all"
    /\ Len(results.sources) = 6
    /\ \A k \in 1..5 : h_log[k].invoked
    /\ Entry(3).kind = "counts" /\ Entry(3).scraped > 0
    /\ Entry(6).kind # "none"

\* C13: without a service credential uploadToSupabase throws before it sends
\* any batch, for every record list (no request reaches the datastore); with
\* the credential it never throws, whatever the outcomes of its batches.
C13_CredentialPrecondition ==
    up_status # "idle" =>
        /\ ~CONFIG.serviceKey =>
              /\ up_status = "threw"
              /\ up_batches = <<>>
              /\ ds_requests = 0 /\ table = EmptyBag
              /\ uploaded = 0 /\ errors = 0
        /\ CONFIG.serviceKey => up_status \in {"running", "returned"}

\* C13 witness: a call with more than one batch of records and no service
\* credential has thrown
C13_Witness ==
    /\ ~CONFIG.serviceKey
    /\ up_status = "threw"
    /\ Len(up_records) > batchSize

\* C13 witness of the other half: with the credential, a call returned after
\* a batch that failed in transport
C13_ReturnedAfterFailure ==
    /\ CONFIG.serviceKey
    /\ up_status = "returned"
    /\ \E k \in 1..Len(up_batches) : up_batches[k].outcome = "transport"

\* a request naming a registered domain and "all" or one of its sources
ValidRequest ==
    /\ req.method = "GET"
    /\ req.type \in DOMAIN SCRAPERS
    /\ req.source = "all" \/ req.source \in Range(SCRAPERS[req.type].sources)

\* C14: for a request with a registered domain and a valid source selector
\* the handler answers once, when the run is over, and the status is 200
\* whatever the fetches, transforms, credential checks and uploads of the
\* run did; a 400 is only ever the answer to an unknown domain or source.
C14_Status200 ==
    /\ (res_status # 0) <=> (h_pc = "done")
    /\ ValidRequest => res_status \in {0, 200}
    /\ res_status = 400 =>
          \/ req.type \notin DOMAIN SCRAPERS
          \/ req.source # "all" /\ req.source \notin Range(SCRAPERS[req.type].sources)

\* C14 witness: a valid request answered 200 although one of its sources
\* threw and a batch of another failed
C14_Witness ==
    /\ ValidRequest
    /\ h_pc = "done" /\ res_status = 200
    /\ \E k \in Sources : Entry(k).kind = "error"
    /\ \E k \in Sources : Entry(k).kind = "counts" /\ Entry(k).errors > 0

\* C15: within one invocation at most one source is in progress: the sources
\* before it are finished and those after it not started; the source in
\* progress is scraped, then transformed, then uploaded (the uploader runs
\* only once the scraper has returned and the scraped count is recorded, the
\* scraper of the next source only once the uploader is done), and the
\* response is sent only after the last source has finished.
C15_SequentialPipeline ==
    /\ \A k \in Sources :
          /\ k < h_k => Entry(k).kind # "none"
          /\ k > h_k => Entry(k).kind = "none" /\ ~h_log[k].invoked /\ h_log[k].raw = -1
    /\ sc_status # "idle" =>
          /\ h_pc = "scraping" /\ up_status = "idle"
          /\ h_k \in Sources /\ sc_fn = SourceFn(h_sources[h_k])
          /\ Entry(h_k).kind = "none" /\ h_log[h_k].raw = -1
    /\ up_status # "idle" =>
          /\ h_pc = "uploading" /\ sc_status = "idle"
          /\ h_k \in Sources /\ h_log[h_k].invoked
          /\ Entry(h_k).kind = "counts" /\ Entry(h_k).scraped = h_log[h_k].raw
    /\ h_pc \in {"loop", "done"} => sc_status = "idle" /\ up_status = "idle"
    /\ (h_pc = "done" /\ res_status = 200 /\ req.method = "GET") =>
          /\ h_k = Len(h_sources) + 1
          /\ \A k \in Sources : Entry(k).kind # "none"

\* C15 witness: the second source is being scraped after the first one was
\* scraped and its records uploaded
C15_Witness ==
    /\ h_pc = "scraping" /\ sc_status = "running"
    /\ h_k = 2
    /\ Entry(1).kind = "counts" /\ Entry(1).uploaded > 0
    /\ ds_requests > 0

RECURSIVE SumField(_, _)
\* the sum of one count over the entries that have the counts shape
SumField(entries, f) ==
    IF entries = <<>> THEN 0
    ELSE (IF Head(entries).kind = "counts" THEN Head(entries)[f] ELSE 0)
         + SumField(Tail(entries), f)

\* C19: in every response with status 200 the totals totalScraped,
\* totalUploaded and totalErrors are the sums of scraped, uploaded and errors
\* over the per-source entries of the {scraped, uploaded, errors} shape; a
\* source reported {error} or {skipped} adds nothing to any total.
C19_TotalsAreSums ==
    Responded200 =>
        /\ results.totalScraped = SumField(results.sources, "scraped")
        /\ results.totalUploaded = SumField(results.sources, "uploaded")
        /\ results.totalErrors = SumField(results.sources, "errors")

RECURSIVE BackoffOwed(_, _, _)
\* the waits owed for the answers hist[k..]: 5 s x k after a 429 at attempt k,
\* 1 s x k after another failure that is not the last attempt
BackoffOwed(hist, k, retries) ==
    IF k > Len(hist) THEN 0
    ELSE (CASE hist[k] = "429" -> 5000 * k
            [] hist[k] = "ok" -> 0
            [] OTHER -> IF k < retries THEN 1000 * k ELSE 0)
         + BackoffOwed(hist, k + 1, retries)

\* the attempts of a call that ended in a failure other than 429
GenericFailures(hist) == Cardinality({k \in 1..Len(hist) : hist[k] \notin {"ok", "429"}})

\* C17: a 429 at attempt k makes fetchWithRetry wait 5 s x k, without the
\* 1 s x k of a generic error on top, and then retry (so no call ends on a
\* 429); the 429 does not use up the retry budget of the generic errors (a
\* call that throws has seen as many generic failures as it has retries).
C17_RateLimitBackoff ==
    /\ fw_waited = BackoffOwed(fw_hist, 1, fw_retries)
    /\ fw_status \notin {"idle", "running"} => fw_last # "429"
    /\ fw_status = "threw" => GenericFailures(fw_hist) = fw_retries

\* the categories of the destination schema
CategoryEnum ==
    {W_bourbon, W_vodka, W_rum, W_tequila, W_gin, W_brandy, W_wine, W_beer,
     W_cocktail, W_spirits, W_other}

\* the text names a whiskey: it contains whisk, bourbon, scotch or rye
NamesWhiskey(c) ==
    \/ Includes(c, <<"w", "h", "i", "s", "k">>)
    \/ Includes(c, W_bourbon)
    \/ Includes(c, <<"s", "c", "o", "t", "c", "h">>)
    \/ Includes(c, <<"r", "y", "e">>)

\* the text matches no rule of the ladder
NamesNothing(c) ==
    /\ ~NamesWhiskey(c)
    /\ \A w \in {W_vodka, W_rum, W_tequila, W_mezcal, W_gin, W_brandy, W_cognac, W_wine,
                  W_beer, W_ale, W_lager, W_malt, W_cocktail, W_spirits} : ~Includes(c, w)

\* C18: the category of a transformed spirit is always a member of the enum
\* {bourbon, vodka, rum, tequila, gin, brandy, wine, beer, cocktail, spirits,
\* other}; a category text containing whisk, bourbon, scotch or rye gives
\* bourbon, and a text matching no rule, an empty or a missing category
\* gives other.
C18_CategoryLadder ==
    (tr_domain = "spirits" /\ tr_out.t = "rec") =>
        LET cat == tr_raw.category
            out == tr_out.v.category
            c == ToLowerCase(ToStringJS(cat))
        IN  /\ out.t = "str" /\ out.v \in CategoryEnum
            /\ ~Truthy(cat) => out.v = W_other
            /\ (cat.t = "str" /\ NamesWhiskey(c)) => out.v = W_bourbon
            /\ (cat.t = "str" /\ NamesNothing(c)) => out.v = W_other

\* the lists a scraper walks (years and sequence numbers, categories,
\* subjects, letters; one for a page or cursor loop)
Walks(fn) ==
    CASE fn = "scrapeTTBCOLA" -> 3 * ((TTBSeqEnd + 99) \div 100)
      [] fn = "scrapeOpenFoodFacts" -> NumCategories
      [] fn = "scrapeOpenLibrary" -> NumSubjects
      [] fn = "scrapeCocktailDB" -> NumLetters
      [] OTHER -> 1

\* C16: every scraper ends after a number of fetches that does not depend on
\* how long the endpoint goes on advertising a continuation: apart from the
\* fetch that ends each of its walks, every fetch brings at least one item,
\* also when the endpoint keeps answering with zero items and a next page.
C16_BoundedFetches ==
    sc_fn \in ScraperFns => sc_fetches <= Walks(sc_fn) + MaxRemoteItems

\* C20: within one scraper call a delay (the scraper's own or the backoff of
\* the fetcher) lies between any two consecutive requests: whenever the
\* scraper is about to send another request, a delay has elapsed since the
\* previous one, also after an empty page, after a failed fetch and when
\* moving to the next category, subject or letter.
C20_ThrottleBetweenFetches ==
    (sc_status = "running" /\ sc_fetches > 0) => sc_delayed

\* the candidate IDs of one year
SeqsPerYear == (TTBSeqEnd + 99) \div 100

\* C21: in the TTB COLA scraper a candidate ID whose detail fetch fails, is
\* answered non-2xx, reports not-found or yields no brand name adds no record
\* and raises nothing; the enumeration goes on with the next candidate: the
\* number of IDs fetched is the position reached in the keyspace, and the
\* scraper returns only at the limit or at the end of the keyspace; the
\* records kept are those of the labelled IDs, before and after a failure.
C21_SkipAndContinue ==
    sc_fn = "scrapeTTBCOLA" =>
        /\ sc_status \in {"running", "returned"}
        /\ sc_status = "running" =>
              sc_fetches = (sc_idx - 1) * SeqsPerYear + (sc_page \div 100)
        /\ sc_status = "returned" =>
              Len(sc_results) >= limit \/ sc_fetches = 3 * SeqsPerYear
        /\ Len(sc_results) <= sc_fetches /\ Len(sc_results) = Min(served, limit)
        /\ \A k \in 1..Len(sc_results) : Truthy(sc_results[k].brand_name)

\* C21 witness: the enumeration reached the end of the keyspace although its
\* first candidate failed, and kept a record of a later candidate
C21_Witness ==
    /\ sc_fn = "scrapeTTBCOLA" /\ sc_status = "returned"
    /\ sc_failed /\ sc_atFail = 0
    /\ sc_fetches = 3 * SeqsPerYear
    /\ Len(sc_results) > 0

\* C22: the abv of a transformed spirit is the numeric value whenever the
\* raw record carries a parseable numeric value (a number or a numeric
\* string, zero included) in abv or in alcohol_content, and null exactly
\* when neither field carries one.
C22_AbvCoercion ==
    (tr_domain = "spirits" /\ tr_out.t = "rec") =>
        LET a == ParseNumber(tr_raw.abv)
            b == ParseNumber(tr_raw.alcohol_content)
            out == tr_out.v.abv
        IN  /\ (a.t = "num" \/ b.t = "num") =>
                  (out.t = "num" /\ out \in {a, b})
            /\ (a.t # "num" /\ b.t # "num") => out = Null

C24_BoundedAttempts ==
    fw_status # "idle" =>
        /\ fw_requests <= fw_retries /\ fw_retries <= RetriesDefault
        /\ fw_requests = Len(fw_hist)
        /\ \A k \in 1..Len(fw_hist) : fw_hist[k] = "ok" => k = Len(fw_hist)
        /\ (fw_hist # <<>> /\ fw_hist[Len(fw_hist)] = "ok") => fw_status = "returned"
        /\ fw_requests = fw_retries => fw_status # "running"

\* C24 witness: a call with the default retries ended after a 429, a
\* network failure and a non-2xx answer, three requests in all
C24_Witness ==
    /\ fw_retries = RetriesDefault
    /\ fw_status = "threw"
    /\ fw_hist = <<"429", "network", "500">>
    /\ fw_requests = RetriesDefault

\* C25: whenever uploadToSupabase returns, uploaded + errors is the number
\* of records passed in; ceil(n / 50) requests were sent, each carrying at
\* most 50 records; and every record, by its position in the input, was sent
\* in exactly one batch, the batches following each other in input order.
C25_CountConservation ==
    up_status = "returned" =>
        LET n == Len(up_records)
        IN  /\ uploaded + errors = n
            /\ Len(up_batches) = (n + batchSize - 1) \div batchSize
            /\ up_run = 1 => ds_requests = Len(up_batches)
            /\ \A k \in 1..Len(up_batches) :
                  /\ up_batches[k].size \in 1..batchSize
                  /\ k > 1 => up_batches[k].from = up_batches[k - 1].from + up_batches[k - 1].size
            /\ \A i \in 1..n :
                  Cardinality({k \in 1..Len(up_batches) :
                                  /\ up_batches[k].from < i
                                  /\ i <= up_batches[k].from + up_batches[k].size}) = 1

\* C25 witness: 101 records were sent in three requests, the last carrying
\* one record, one batch answered non-2xx and one request lost in transport
C25_Witness ==
    /\ up_status = "returned" /\ up_run = 1
    /\ Len(up_records) = 2 * batchSize + 1
    /\ Len(up_batches) = 3 /\ up_batches[3].size = 1
    /\ \E j, k \in 1..3 : up_batches[j].outcome = "non2xx" /\ up_batches[k].outcome = "transport"
    /\ uploaded + errors = Len(up_records) /\ uploaded > 0

\* every fetch of the scraper call in progress, or of the one just processed,
\* failed, and there was at least one
AllFetchesFailed == sc_failed /\ ~sc_succeeded

\* C26: for every source scraper, a run in which every fetch fails makes the
\* scraper return an empty list rather than throw; the uploader is not
\* invoked for the source, and the source is reported as
\* {scraped: 0, uploaded: 0, errors: 0}, never as {error}.
C26_FetchFailuresContained ==
    AllFetchesFailed =>
        /\ sc_fn \in ScraperFns =>
              (sc_status \in {"running", "returned"} /\ sc_results = <<>>)
        /\ h_pc # "uploading"
        /\ (h_pc = "loop" /\ JustProcessed >= 1 /\ h_log[JustProcessed].invoked) =>
              /\ Entry(JustProcessed) = CountsEntry(0, 0, 0)
              /\ h_log[JustProcessed].threw = "no"
              /\ up_status = "idle"

\* C26 witness: every fetch of a source that was to be uploaded failed, and
\* the source was reported with three zero counts
C26_Witness ==
    /\ AllFetchesFailed
    /\ req.skip_upload # "true" /\ CONFIG.serviceKey
    /\ h_pc = "loop" /\ JustProcessed >= 1 /\ h_log[JustProcessed].invoked
    /\ Entry(JustProcessed) = CountsEntry(0, 0, 0)
    /\ ds_requests = 0

\* C27: category normalization is idempotent: the category of a transformed
\* spirit is a fixed point of mapCategory, whatever the input was; and every
\* category value a spirits scraper can produce (an output of
\* mapOFFCategory, a TTB category, or the literals beer and cocktail) is
\* stored unchanged by transformSpirit.
C27_CategoryIdempotent ==
    (tr_domain = "spirits" /\ tr_out.t = "rec") =>
        /\ mapCategory(tr_out.v.category) = tr_out.v.category
        /\ tr_raw.category \in ScraperCategories => tr_out.v.category = tr_raw.category

\* C27 witness: a category a scraper produced other than the default, here
\* the beer of a malt label, went through transformSpirit
C27_Witness ==
    /\ tr_domain = "spirits" /\ tr_out.t = "rec"
    /\ tr_raw.category = TTBCategory(Str(<<"M", "a", "l", "t">>))
    /\ tr_out.v.category = Str(W_beer)

=============================================================================
